---- MODULE Spec2Model ----
(***************************************************************************)
(* Model of port/tarball.py: class Tarball, a wrapper around the tarfile   *)
(* module that reads and writes strings and pixbufs and, in read mode,     *)
(* converts a zip file to a tar file through a scratch directory and a     *)
(* scratch file.                                                           *)
(*                                                                         *)
(* One archive path on disk and one Tarball object at a time are modelled. *)
(* A member name is a text string, written as its sequence of code points; *)
(* arcname.encode('utf8') turns it into the byte string the archive        *)
(* stores.  Byte strings are sequences of byte values.                     *)
(***************************************************************************)
EXTENDS Integers, Sequences, FiniteSets, TLC

VARIABLES disk, h, clock, leakedDirs, leakedFiles, written, lastWrite, last

vars == <<disk, h, clock, leakedDirs, leakedFiles, written, lastWrite, last>>

\* ---------------------------------------------------------------- bounds
\* Members one write-mode handle may append.
MaxMembers == 2
\* Tarball objects constructed in one behaviour.
MaxOpens == 2

\* ------------------------------------------------------------- constants
\* write(self, arcname, data, mode=0644)
DefaultMode == 420

\* ------------------------------------------------------------ input sets
\* Names given to read and write: 'a' and the non-ASCII name u'\xe9'.
Names == {<<97>>, <<233>>}
\* The name the directory entry of a converted zip carries (arcname='').
RootName == <<>>
ReadNames == Names \cup {RootName}

\* Values handed to write: tagged by their Python type.
Str(b) == [t |-> "str", v |-> b]
Pixbuf(p) == [t |-> "pixbuf", v |-> p]
IntVal(i) == [t |-> "int", v |-> <<i>>]
None == [t |-> "None", v |-> <<>>]
Strings == {Str(<<7, 8>>)}
Pixbufs == {Pixbuf(<<1>>)}
Unsupported == {IntVal(5)}
Values == Strings \cup Pixbufs \cup Unsupported

\* The mtime argument of the constructor: absent (None) or a number.
NoMtime == [given |-> FALSE, v |-> 0]
Mtime(x) == [given |-> TRUE, v |-> x]
MtimeArgs == {NoMtime, Mtime(0), Mtime(50)}

\* ------------------------------------------------------- pure operations
\* UTF-8 bytes of one code point (below U+0800).
utf8(cp) == IF cp < 128 THEN <<cp>> ELSE <<192 + (cp \div 64), 128 + (cp % 64)>>

\* arcname.encode('utf8')
RECURSIVE encode(_)
encode(name) == IF name = <<>> THEN <<>> ELSE utf8(Head(name)) \o encode(Tail(name))

\* gtk.gdk.Pixbuf.save_to_callback(push, 'png'): the PNG bytes of a pixbuf.
png(p) == <<137>> \o p
IsPng(b) == Len(b) >= 1 /\ b[1] = 137

\* tarfile.TarInfo(name) with mode and mtime set; size is set by the writer.
TarInfo(name, mode, mtime) ==
    [name |-> name, type |-> "file", size |-> 0, mode |-> mode, mtime |-> mtime, data |-> <<>>]

Take(s, n) == SubSeq(s, 1, IF n < Len(s) THEN n ELSE Len(s))

\* TarFile.addfile(info, fileobj): appends the header and info.size bytes of fileobj.
\* Faulty variants: one overwrites a member of the same name, one inserts in front.
addfile_replace(members, info, data) ==
    SelectSeq(members, LAMBDA m : m.name # info.name) \o <<[info EXCEPT !.data = Take(data, info.size)]>>
addfile_front(members, info, data) ==
    <<[info EXCEPT !.data = Take(data, info.size)]>> \o members
addfile(members, info, data) ==
    Append(members, [info EXCEPT !.data = Take(data, info.size)])

\* Tarball.__write_str: info.size = len(data); addfile(info, StringIO(data))
\* Faulty variant: the size is one byte short.
write_str_short(members, info, data) ==
    addfile(members, [info EXCEPT !.size = IF Len(data) > 0 THEN Len(data) - 1 ELSE 0], data)
write_str(members, info, data) ==
    addfile(members, [info EXCEPT !.size = Len(data)], data)

\* Tarball.__write_pixbuf: the PNG bytes go to a buffer, info.size = buffer.tell()
write_pixbuf(members, info, data) ==
    addfile(members, [info EXCEPT !.size = Len(png(data))], png(data))

\* TarFile.getnames()
getnames(members) == [i \in 1..Len(members) |-> members[i].name]

\* TarFile._getmember: the last member of that name, 0 when there is none.
getmember(members, bname) ==
    LET hits == {i \in 1..Len(members) : members[i].name = bname}
    IN IF hits = {} THEN 0 ELSE CHOOSE i \in hits : \A j \in hits : j <= i

\* TarFile.extractfile(name) followed by file_o.read(), on an open read-mode archive.
extractfile(members, bname) ==
    LET i == getmember(members, bname)
    IN IF i = 0 THEN [err |-> "KeyError", ret |-> None]
       ELSE IF members[i].type = "file" THEN [err |-> "none", ret |-> Str(members[i].data)]
       ELSE [err |-> "none", ret |-> None]

\* TarFile._check(mode): IOError when the archive is closed or in another mode.
\* Faulty variant: the closed flag is not looked at.
check_mode_only(state, modes) == IF state # "closed" /\ state \notin modes THEN "IOError" ELSE "none"
check(state, modes) == IF state = "closed" \/ state \notin modes THEN "IOError" ELSE "none"

\* Tarball.read(arcname)
read(hd, name) ==
    IF check(hd.state, {"r"}) # "none" THEN [err |-> "IOError", ret |-> None]
    ELSE extractfile(hd.members, encode(name))

\* Tarball.read_pixbuf(arcname): the payload is fed to a PNG loader.
read_pixbuf(hd, name) ==
    LET r == read(hd, name)
    IN IF r.err # "none" THEN r
       ELSE IF r.ret = None THEN [err |-> "TypeError", ret |-> None]
       ELSE IF IsPng(r.ret.v) THEN [err |-> "none", ret |-> Pixbuf(Tail(r.ret.v))]
       ELSE [err |-> "GError", ret |-> None]

\* Tarball.write(arcname, data, mode): the members afterwards and the error raised.
\* Faulty variant: whatever is not a pixbuf is written as a string.
write_any(hd, name, data, mode) ==
    LET info == TarInfo(encode(name), mode, hd.mtime)
        ok == check(hd.state, {"w"}) = "none"
    IN IF data.t = "pixbuf"
       THEN [err |-> IF ok THEN "none" ELSE "IOError",
             members |-> IF ok THEN write_pixbuf(hd.members, info, data.v) ELSE hd.members]
       ELSE [err |-> IF ok THEN "none" ELSE "IOError",
             members |-> IF ok THEN write_str(hd.members, info, data.v) ELSE hd.members]
write(hd, name, data, mode) ==
    LET info == TarInfo(encode(name), mode, hd.mtime)
        ok == check(hd.state, {"w"}) = "none"
    IN IF data.t = "str"
       THEN [err |-> IF ok THEN "none" ELSE "IOError",
             members |-> IF ok THEN write_str(hd.members, info, data.v) ELSE hd.members]
       ELSE IF data.t = "pixbuf"
       THEN [err |-> IF ok THEN "none" ELSE "IOError",
             members |-> IF ok THEN write_pixbuf(hd.members, info, data.v) ELSE hd.members]
       ELSE [err |-> "BadDataTypeError", members |-> hd.members]

\* ------------------------------------------------------- the constructor
\* tarfile.is_tarfile(name), zipfile.is_zipfile(name)
is_tarfile(d) == d.kind = "tar"
\* Faulty variant: every file passes for a zip.
is_zipfile_any(d) == TRUE
is_zipfile(d) == d.kind = "zip"

\* The steps of the try block that can raise, and what each raises.
Steps == {"mkdtemp", "mkstemp", "fdopen", "extractall", "reopen"}
Fails == Steps \cup {"none"}
ErrOf(step) ==
    CASE step \in {"mkdtemp", "mkstemp", "fdopen"} -> "OSError"
      [] step = "extractall" -> "BadZipfile"
      [] step = "reopen" -> "ReadError"
      [] OTHER -> "none"

\* A member as the archive holds it.
Member(bname, type, data, mtime) ==
    [name |-> bname, type |-> type, size |-> Len(data), mode |-> DefaultMode,
     mtime |-> mtime, data |-> data]

\* zip.extractall(tmp_dir); tar.add(tmp_dir, arcname=''): an entry for the
\* directory itself, then its files in os.listdir order (order), stamped now.
Orders(n) == {f \in [1..n -> 1..n] : \A i, j \in 1..n : f[i] = f[j] => i = j}
converted(zmembers, order, now) ==
    <<Member(encode(RootName), "dir", <<>>, now)>> \o
    [i \in 1..Len(zmembers) |-> [zmembers[order[i]] EXCEPT !.mtime = now]]

\* The try/finally of the zip fallback: what the finally clause leaves behind.
\* tmp_dir and tmp_name exist once their step ran; tmp_fo is bound after fdopen.
zipFallback(d, fail, order, now) ==
    LET dirMade == fail # "mkdtemp"
        fileMade == fail \notin {"mkdtemp", "mkstemp"}
        foBound == fail \notin {"mkdtemp", "mkstemp", "fdopen"}
    IN IF ~foBound
       THEN [err |-> "UnboundLocalError", members |-> <<>>,
             dirs |-> IF dirMade THEN 1 ELSE 0, files |-> IF fileMade THEN 1 ELSE 0]
       ELSE [err |-> ErrOf(fail),
             members |-> IF fail = "none" THEN converted(d.members, order, now) ELSE <<>>,
             dirs |-> 0, files |-> 0]

\* Tarball.__init__ up to the mtime choice: the archive opened and what is left on disk.
openArchive(d, mode, fail, order, now) ==
    IF mode # "r"
    THEN [err |-> "none", members |-> <<>>, fromZip |-> FALSE, dirs |-> 0, files |-> 0,
          disk |-> [kind |-> "tar", members |-> <<>>]]
    ELSE IF is_tarfile(d)
    THEN [err |-> "none", members |-> d.members, fromZip |-> FALSE, dirs |-> 0, files |-> 0,
          disk |-> d]
    ELSE IF ~is_zipfile(d)
    THEN [err |-> "ReadError", members |-> <<>>, fromZip |-> FALSE, dirs |-> 0, files |-> 0,
          disk |-> d]
    ELSE \* zipfile.ZipFile(name) raises BadZipfile on a file that is no zip
         LET z == zipFallback(d, IF d.kind = "zip" THEN fail ELSE "extractall", order, now)
         IN [err |-> z.err, members |-> z.members, fromZip |-> TRUE, dirs |-> z.dirs,
             files |-> z.files, disk |-> d]

\* if mtime: self.mtime = mtime else: self.mtime = time.time()
chooseMtime(arg, now) == IF arg.given /\ arg.v # 0 THEN arg.v ELSE now

\* ------------------------------------------------------ the state machine
\* disk: the file at the archive path.  h: the Tarball object.  clock: time.time().
\* leakedDirs, leakedFiles: scratch directories and files left in the temp directory.
\* written: the names of the successful writes on h, in call order.
\* lastWrite: the latest successful write that went into the file at the path.
\* last: the latest call, its arguments and its outcome.

NoHandle(id) ==
    [id |-> id, state |-> "none", members |-> <<>>, mtime |-> 0, mtimeArg |-> NoMtime, fromZip |-> FALSE]
NoWrite == [name |-> <<>>, value |-> None]
Call(op, onState, name, value, err, ret, names, before) ==
    [op |-> op, onState |-> onState, name |-> name, value |-> value, err |-> err,
     ret |-> ret, names |-> names, before |-> before,
     mode |-> "", kind |-> "", fail |-> "none"]

\* Files the path may hold before the first open.
InitDisks ==
    { [kind |-> "tar", members |-> <<>>],
      [kind |-> "tar", members |-> <<Member(encode(<<233>>), "file", <<7>>, 3)>>],
      [kind |-> "tar", members |-> <<Member(encode(RootName), "dir", <<>>, 3),
                                     Member(encode(<<97>>), "file", png(<<1>>), 3)>>],
      [kind |-> "zip", members |-> <<Member(encode(<<97>>), "file", <<7>>, 3)>>],
      [kind |-> "zip", members |-> <<Member(encode(<<98>>), "file", <<7, 8>>, 3),
                                     Member(encode(<<97>>), "file", <<>>, 3)>>],
      [kind |-> "other", members |-> <<>>] }

Init ==
    /\ disk \in InitDisks
    /\ h = NoHandle(0)
    /\ clock = 1
    /\ leakedDirs = 0
    /\ leakedFiles = 0
    /\ written = <<>>
    /\ lastWrite = NoWrite
    /\ last = Call("none", "none", <<>>, None, "none", None, <<>>, <<>>)

\* Tarball(name, mode, mtime): a new object replaces a closed or absent one.
Open(mode, mtimeArg, fail, order) ==
    /\ h.state \in {"none", "closed"}
    /\ h.id < MaxOpens
    /\ LET o == openArchive(disk, mode, fail, order, clock)
       IN /\ h' = IF o.err = "none"
                  THEN [id |-> h.id + 1, state |-> mode, members |-> o.members,
                        mtime |-> chooseMtime(mtimeArg, clock), mtimeArg |-> mtimeArg,
                        fromZip |-> o.fromZip]
                  ELSE NoHandle(h.id + 1)
          /\ disk' = o.disk
          /\ leakedDirs' = leakedDirs + o.dirs
          /\ leakedFiles' = leakedFiles + o.files
          /\ last' = [Call("open", h.state, <<>>, None, o.err, None, <<>>, <<>>)
                        EXCEPT !.mode = mode, !.kind = disk.kind,
                               !.fail = IF o.fromZip THEN fail ELSE "none"]
    /\ clock' = clock + 1
    /\ written' = <<>>
    /\ lastWrite' = IF mode = "w" THEN NoWrite ELSE lastWrite

\* Tarball.close(): a write-mode archive is completed on disk.
Close ==
    /\ h.state # "none"
    /\ h' = [h EXCEPT !.state = "closed"]
    /\ disk' = IF h.state = "w" THEN [kind |-> "tar", members |-> h.members] ELSE disk
    /\ last' = Call("close", h.state, <<>>, None, "none", None, <<>>, h.members)
    /\ UNCHANGED <<clock, leakedDirs, leakedFiles, written, lastWrite>>

\* Tarball.getnames()
Getnames ==
    /\ h.state # "none"
    /\ LET e == check(h.state, {"r", "w"})
       IN last' = Call("getnames", h.state, <<>>, None, e, None,
                       IF e = "none" THEN getnames(h.members) ELSE <<>>, h.members)
    /\ UNCHANGED <<disk, h, clock, leakedDirs, leakedFiles, written, lastWrite>>

\* Tarball.read(arcname)
Read(name) ==
    /\ h.state # "none"
    /\ LET r == read(h, name)
       IN last' = Call("read", h.state, name, None, r.err, r.ret, <<>>, h.members)
    /\ UNCHANGED <<disk, h, clock, leakedDirs, leakedFiles, written, lastWrite>>

\* Tarball.read_pixbuf(arcname)
ReadPixbuf(name) ==
    /\ h.state # "none"
    /\ LET r == read_pixbuf(h, name)
       IN last' = Call("read_pixbuf", h.state, name, None, r.err, r.ret, <<>>, h.members)
    /\ UNCHANGED <<disk, h, clock, leakedDirs, leakedFiles, written, lastWrite>>

\* Tarball.write(arcname, data)
Write(name, data) ==
    /\ h.state # "none"
    /\ (h.state = "w" /\ data \notin Unsupported) => Len(h.members) < MaxMembers
    /\ LET w == write(h, name, data, DefaultMode)
       IN /\ h' = [h EXCEPT !.members = w.members]
          /\ written' = IF w.err = "none" THEN Append(written, name) ELSE written
          /\ lastWrite' = IF w.err = "none" THEN [name |-> name, value |-> data] ELSE lastWrite
          /\ last' = Call("write", h.state, name, data, w.err, None, <<>>, h.members)
    /\ UNCHANGED <<disk, clock, leakedDirs, leakedFiles>>

Next ==
    \/ \E mode \in {"r", "w"}, mtimeArg \in MtimeArgs, fail \in Fails :
         \E order \in Orders(IF disk.kind = "zip" /\ mode = "r" THEN Len(disk.members) ELSE 0) :
           /\ (mode = "w" \/ disk.kind # "zip") => fail = "none"
           /\ Open(mode, mtimeArg, fail, order)
    \/ Close
    \/ Getnames
    \/ \E name \in ReadNames : Read(name)
    \/ \E name \in ReadNames : ReadPixbuf(name)
    \/ \E name \in Names, data \in Values : Write(name, data)

Spec == Init /\ [][Next]_vars

\* ------------------------------------------------------------ properties
NoDup(seq) == \A i, j \in 1..Len(seq) : i # j => seq[i] # seq[j]
EncodeAll(names) == [i \in 1..Len(names) |-> encode(names[i])]
ContentOps == {"read", "read_pixbuf", "getnames", "write"}

\* C1: write(n, s) with a byte string s, then close(), then a reopen for
\* reading: read(n) raises nothing and returns exactly s.
C1_RoundTrip ==
    (last.op = "read" /\ last.onState = "r" /\ lastWrite.value.t = "str"
       /\ last.name = lastWrite.name)
    => (last.err = "none" /\ last.ret = lastWrite.value /\ Len(last.ret.v) = Len(lastWrite.value.v))

C1_Witness ==
    /\ last.op = "read" /\ last.onState = "r" /\ lastWrite.value.t = "str"
    /\ last.name = lastWrite.name /\ last.name = <<233>>
    /\ last.ret = Str(<<7, 8>>)

\* C2: on a read-mode handle, read of a name no member carries returns None
\* and raises nothing.
C2_ReadAbsent ==
    (last.op = "read" /\ last.onState = "r" /\ getmember(h.members, encode(last.name)) = 0)
    => (last.err = "none" /\ last.ret = None)

\* C3: however the zip fallback ends, no scratch directory and no scratch
\* file is left, and a failure reaches the caller as the error of the step
\* that failed.
C3_ScratchCleanup ==
    (last.op = "open" /\ last.mode = "r" /\ last.kind = "zip")
    => (leakedDirs = 0 /\ leakedFiles = 0 /\ last.err = ErrOf(last.fail))

C5_ZipLikeTar ==
    (h.state = "r" /\ h.fromZip)
    => /\ getnames(h.members) = getnames(disk.members)
       /\ \A n \in ReadNames : read(h, n) = read([h EXCEPT !.members = disk.members], n)

\* C6: opening for reading a file that is neither tar nor zip raises
\* tarfile.ReadError, yields no handle and leaves no scratch directory or file.
C6_FormatError ==
    (last.op = "open" /\ last.mode = "r" /\ last.kind = "other")
    => (last.err = "ReadError" /\ h.state = "none" /\ leakedDirs = 0 /\ leakedFiles = 0)

C6_Witness ==
    last.op = "open" /\ last.mode = "r" /\ last.kind = "other" /\ last.err = "ReadError"

\* C7: write of a value that is neither a string nor a pixbuf raises
\* BadDataTypeError and leaves the member sequence as it was.
C7_UnsupportedType ==
    (last.op = "write" /\ last.value \in Unsupported)
    => (last.err = "BadDataTypeError" /\ h.members = last.before)

C7_Witness ==
    /\ last.op = "write" /\ last.value \in Unsupported /\ last.onState = "w"
    /\ last.err = "BadDataTypeError" /\ Len(h.members) > 0

C9_UniqueNames == h.state = "w" => NoDup(getnames(h.members))

\* C9 amended: every successful write appends one member, also when its name
\* is already there; the names are unique exactly when the names written are.
C9_OneMemberPerWrite ==
    h.state = "w"
    => /\ Len(h.members) = Len(written)
       /\ NoDup(getnames(h.members)) <=> NoDup(written)

C9_Witness ==
    /\ h.state = "w" /\ Len(h.members) = 2
    /\ h.members[1].name = h.members[2].name
    /\ h.members[1].data # h.members[2].data

\* C10: the handle's timestamp is the mtime argument whenever one is given,
\* 0 included, else the time at open; every member written carries it.
C10_Timestamp ==
    h.state \in {"r", "w"}
    => /\ h.mtimeArg.given => h.mtime = h.mtimeArg.v
       /\ ~h.mtimeArg.given => h.mtime = clock - 1
       /\ h.state = "w" => \A i \in 1..Len(h.members) : h.members[i].mtime = h.mtime
====
